---------------------------- MODULE Spec2Model ----------------------------
(***************************************************************************)
(* A model of lesson-bayes-conjugacy-mle/beta-binomial-model.ipynb.        *)
(*                                                                         *)
(* The notebook has three parts that can be given a state:                 *)
(*   - its code cells, run by a kernel (SpecNotebook);                     *)
(*   - the Beta-Binomial prior-to-posterior update it derives (Spec);      *)
(*   - the point estimates and densities it defines for measured counts    *)
(*     n, k: likelihood, MLE, count-based Beta, MAP (SpecEstimate).        *)
(* Probabilities and densities are exact rationals <<num, den>>, den > 0.  *)
(***************************************************************************)
EXTENDS Integers, Sequences, FiniteSets

VARIABLES
    namespace,        \* names bound in the kernel's user namespace
    style,            \* seaborn plot style in force
    figure_format,    \* inline backend figure format in force
    execution_count,  \* the kernel's execution counter
    lastRun,          \* index of the code cell run last, 0 before any run
    prior,            \* <<alpha, beta>> of the prior
    alpha,            \* current posterior alpha
    beta,             \* current posterior beta
    before,           \* <<alpha, beta>> as they were before the last update
    obs,              \* the observations <<n, k>> absorbed so far
    n,                \* measured number of visitors
    k,                \* measured number of subscribers
    p,                \* the probability at which the likelihood was evaluated
    lik,              \* L(n, k | p), or None
    mle,              \* the maximum likelihood estimate, or None
    likMax,           \* L(n, k | mle), or None
    shape,            \* <<alpha, beta>> of the count-based Beta, or None
    map               \* MAP of the count-based Beta, or None

kernelVars == <<namespace, style, figure_format, execution_count, lastRun>>
updateVars == <<prior, alpha, beta, before, obs>>
estimateVars == <<n, k, p, lik, mle, likMax, shape, map>>
vars == <<namespace, style, figure_format, execution_count, lastRun,
          prior, alpha, beta, before, obs,
          n, k, p, lik, mle, likMax, shape, map>>

None == <<>>

(***************************************************************************)
(* Bounds of the model.                                                    *)
(***************************************************************************)
MaxExec == 12
MaxPrior == 3
MaxN == 3
MaxUpdates == 2
MaxTrials == 4
GridSize == 5

(***************************************************************************)
(* Exact arithmetic.                                                       *)
(***************************************************************************)
Pow(b, e) == IF e = 0 THEN 1 ELSE b ^ e

RECURSIVE Choose(_, _)
Choose(nn, kk) ==
    IF kk = 0 \/ kk = nn THEN 1
    ELSE Choose(nn - 1, kk - 1) + Choose(nn - 1, kk)

LeqRat(x, y) == x[1] * y[2] <= y[1] * x[2]
LtRat(x, y) == x[1] * y[2] < y[1] * x[2]
MulRat(x, y) == <<x[1] * y[1], x[2] * y[2]>>
Grid == {<<a, GridSize>> : a \in 0..GridSize}
\* (x + y) / 2 for two rationals over the same denominator
Midpoint(x, y) == <<x[1] + y[1], 2 * x[2]>>

(***************************************************************************)
(* The code cells and the kernel that runs them.                           *)
(***************************************************************************)
ImportCellSource ==
    << [op |-> "import", name |-> "plt"],
       [op |-> "import", name |-> "np"],
       [op |-> "import", name |-> "pd"],
       [op |-> "import", name |-> "sns"],
       [op |-> "import", name |-> "stats"],
       [op |-> "set_style", name |-> "whitegrid"],
       [op |-> "magic", name |-> "inline"],
       [op |-> "config", name |-> "retina"] >>

ExerciseCellFilled == << [op |-> "import", name |-> "binom"] >>
ExerciseCellSource == << [op |-> "comment", name |-> "# A:"] >>

EmptyCellSource == << >>

CodeCells ==
    << ImportCellSource,
       ExerciseCellSource, ExerciseCellSource, ExerciseCellSource,
       ExerciseCellSource, ExerciseCellSource, ExerciseCellSource,
       ExerciseCellSource,
       EmptyCellSource >>

ExerciseCells == 2..8

Binds(src) == {src[i].name : i \in {j \in DOMAIN src : src[j].op = "import"}}

Setting(src, what, old) ==
    LET hits == {j \in DOMAIN src : src[j].op = what}
    IN IF hits = {} THEN old
       ELSE src[CHOOSE j \in hits : \A h \in hits : h <= j].name

RunCell(c) ==
    /\ execution_count < MaxExec
    /\ namespace' = namespace \cup Binds(CodeCells[c])
    /\ style' = Setting(CodeCells[c], "set_style", style)
    /\ figure_format' = Setting(CodeCells[c], "config", figure_format)
    /\ execution_count' = execution_count + 1
    /\ lastRun' = c
    /\ UNCHANGED <<updateVars, estimateVars>>

(***************************************************************************)
(* The Beta-Binomial update.                                               *)
(***************************************************************************)
LikelihoodKernel(nn, kk) == <<kk, nn - kk>>
PriorKernel(a, b) == <<a - 1, b - 1>>
KernelProduct(e, f) == <<e[1] + f[1], e[2] + f[2]>>
KernelValue(e, x) ==
    <<Pow(x[1], e[1]) * Pow(x[2] - x[1], e[2]), Pow(x[2], e[1] + e[2])>>

PosteriorUpdateNoFailures(a, b, nn, kk) == <<kk + a, nn + b>>
PosteriorUpdateSwapped(a, b, nn, kk) == <<nn - kk + a, kk + b>>
PosteriorUpdateSignSlip(a, b, nn, kk) == <<kk + a, kk - nn + b>>
PosteriorUpdate(a, b, nn, kk) == <<kk + a, nn - kk + b>>

Update(nn, kk) ==
    /\ Len(obs) < MaxUpdates
    /\ before' = <<alpha, beta>>
    /\ alpha' = PosteriorUpdate(alpha, beta, nn, kk)[1]
    /\ beta' = PosteriorUpdate(alpha, beta, nn, kk)[2]
    /\ obs' = Append(obs, <<nn, kk>>)
    /\ UNCHANGED <<prior, kernelVars, estimateVars>>

(***************************************************************************)
(* Likelihood, MLE, count-based Beta and MAP for measured counts.          *)
(***************************************************************************)
Likelihood(nn, kk, x) ==
    <<Choose(nn, kk) * Pow(x[1], kk) * Pow(x[2] - x[1], nn - kk), Pow(x[2], nn)>>

MLELaplace(nn, kk) == <<kk + 1, nn + 2>>
MLE(nn, kk) == <<kk, nn>>

BetaFromCountsNoPlusOne(nn, kk) == <<kk, nn - kk>>
BetaFromCountsSwapped(nn, kk) == <<nn - kk + 1, kk + 1>>
BetaFromCounts(nn, kk) == <<kk + 1, nn - kk + 1>>

BetaKernel(a, b, x) ==
    <<Pow(x[1], a - 1) * Pow(x[2] - x[1], b - 1), Pow(x[2], a + b - 2)>>

MAPMean(a, b) == <<a, a + b>>
MAP(a, b) == <<a - 1, a + b - 2>>

EvaluateLikelihood(x) ==
    /\ p' = x
    /\ lik' = Likelihood(n, k, x)
    /\ UNCHANGED <<n, k, mle, likMax, shape, map, kernelVars, updateVars>>

ComputeMLE ==
    /\ n >= 1
    /\ mle = None
    /\ mle' = MLE(n, k)
    /\ likMax' = Likelihood(n, k, MLE(n, k))
    /\ UNCHANGED <<n, k, p, lik, shape, map, kernelVars, updateVars>>

BuildBeta ==
    /\ shape = None
    /\ shape' = BetaFromCounts(n, k)
    /\ UNCHANGED <<n, k, p, lik, mle, likMax, map, kernelVars, updateVars>>

ComputeMAP ==
    /\ shape # None
    /\ map = None
    /\ shape[1] + shape[2] > 2
    /\ map' = MAP(shape[1], shape[2])
    /\ UNCHANGED <<n, k, p, lik, mle, likMax, shape, kernelVars, updateVars>>

(***************************************************************************)
(* Initial states and specifications.                                      *)
(***************************************************************************)
KernelInit ==
    /\ namespace = {}
    /\ style = "default"
    /\ figure_format = "png"
    /\ execution_count = 0
    /\ lastRun = 0

UpdateIdle ==
    /\ prior = <<1, 1>>
    /\ alpha = 1
    /\ beta = 1
    /\ before = None
    /\ obs = << >>

EstimateIdle ==
    /\ n = 0
    /\ k = 0
    /\ p = None
    /\ lik = None
    /\ mle = None
    /\ likMax = None
    /\ shape = None
    /\ map = None

Init ==
    /\ prior \in (1..MaxPrior) \X (1..MaxPrior)
    /\ alpha = prior[1]
    /\ beta = prior[2]
    /\ before = None
    /\ obs = << >>
    /\ KernelInit
    /\ EstimateIdle

Next == \E nn \in 0..MaxN : \E kk \in 0..nn : Update(nn, kk)

Spec == Init /\ [][Next]_vars

InitEstimate ==
    /\ n \in 0..MaxTrials
    /\ k \in 0..n
    /\ p = None
    /\ lik = None
    /\ mle = None
    /\ likMax = None
    /\ shape = None
    /\ map = None
    /\ KernelInit
    /\ UpdateIdle

NextEstimate ==
    \/ \E x \in Grid : EvaluateLikelihood(x)
    \/ ComputeMLE
    \/ BuildBeta
    \/ ComputeMAP

SpecEstimate == InitEstimate /\ [][NextEstimate]_vars

InitNotebook ==
    /\ KernelInit
    /\ UpdateIdle
    /\ EstimateIdle

NextNotebook == \E c \in DOMAIN CodeCells : RunCell(c)

SpecNotebook == InitNotebook /\ [][NextNotebook]_vars

(***************************************************************************)
(* Properties of the update (checked under Spec).                          *)
(***************************************************************************)
RECURSIVE SumN(_)
SumN(s) == IF s = << >> THEN 0 ELSE s[1][1] + SumN(Tail(s))

RECURSIVE SumK(_)
SumK(s) == IF s = << >> THEN 0 ELSE s[1][2] + SumK(Tail(s))

RECURSIVE ApplyAll(_, _)
ApplyAll(ab, s) ==
    IF s = << >> THEN ab
    ELSE ApplyAll(PosteriorUpdate(ab[1], ab[2], s[1][1], s[1][2]), Tail(s))

Reverse(s) == [i \in 1..Len(s) |-> s[Len(s) + 1 - i]]

\* C1: after an update of Beta(a, b) with k successes in n trials the
\* posterior is alpha = k + a and beta = n - k + b, and the product of the
\* likelihood kernel p^k (1-p)^(n-k) with the prior kernel
\* p^(a-1) (1-p)^(b-1) is the kernel with exponents alpha - 1 on p and
\* beta - 1 on (1-p), both as exponents and as values at p = 1/3.
C1_PosteriorUpdate ==
    obs # << >> =>
        LET d == obs[Len(obs)]
            lk == LikelihoodKernel(d[1], d[2])
            pk == PriorKernel(before[1], before[2])
            x == <<1, 3>>
        IN /\ alpha = d[2] + before[1]
           /\ beta = d[1] - d[2] + before[2]
           /\ KernelProduct(lk, pk) = <<d[2] + before[1] - 1, d[1] - d[2] + before[2] - 1>>
           /\ KernelProduct(lk, pk) = <<alpha - 1, beta - 1>>
           /\ MulRat(KernelValue(lk, x), KernelValue(pk, x))
                = KernelValue(<<alpha - 1, beta - 1>>, x)

C1_Witness ==
    /\ Len(obs) = 2
    /\ obs[2] = <<3, 1>>
    /\ before = <<3, 2>>
    /\ alpha = 4
    /\ beta = 4

\* C2: starting from a prior with alpha > 0 and beta > 0, after any sequence
\* of updates the parameters are again valid Beta parameters.
C2_StaysBeta == alpha > 0 /\ beta > 0

C2_Witness ==
    /\ Len(obs) = 2
    /\ obs[1] = <<3, 3>>
    /\ obs[2] = <<3, 0>>
    /\ prior = <<1, 1>>
    /\ alpha = 4
    /\ beta = 4

\* C5: the count-based Beta(k + 1, n - k + 1) for k successes in n trials
\* is the posterior of the prior Beta(1, 1) updated with the data (n, k).
C5_CountsAreUniformPosterior ==
    (prior = <<1, 1>> /\ Len(obs) = 1) =>
        <<alpha, beta>> = BetaFromCounts(obs[1][1], obs[1][2])

C5_Witness ==
    /\ prior = <<1, 1>>
    /\ obs = << <<3, 2>> >>
    /\ alpha = 3
    /\ beta = 2

\* C9: the updates compose and commute: the parameters after the
\* observations in the order made equal those after the same observations
\* in reverse order and those after one update with the pooled data, and
\* alpha + beta is the prior's alpha + beta plus the total number of trials.
C9_ComposeCommute ==
    /\ <<alpha, beta>> = ApplyAll(prior, Reverse(obs))
    /\ <<alpha, beta>> = PosteriorUpdate(prior[1], prior[2], SumN(obs), SumK(obs))
    /\ alpha + beta = prior[1] + prior[2] + SumN(obs)

C9_Witness ==
    /\ Len(obs) = 2
    /\ obs[1] = <<3, 1>>
    /\ obs[2] = <<2, 2>>
    /\ prior = <<2, 3>>
    /\ alpha = 5
    /\ beta = 5

(***************************************************************************)
(* Properties of the estimates (checked under SpecEstimate).               *)
(***************************************************************************)
One == <<1, 1>>

\* C3: the MLE is k/n: the likelihood at any evaluated p of the grid is no
\* greater than the likelihood at the MLE.
C3_MLEMaximizes ==
    (mle # None /\ lik # None) =>
        /\ mle[1] * n = k * mle[2]
        /\ LeqRat(lik, likMax)

C3_Witness ==
    /\ n = 3
    /\ k = 2
    /\ mle = <<2, 3>>
    /\ p = <<3, GridSize>>
    /\ lik # None
    /\ LtRat(lik, likMax)

\* C4: MAP(alpha, beta) = (alpha - 1)/(alpha + beta - 2) is the mode of
\* Beta(alpha, beta): for alpha >= 1, beta >= 1, alpha + beta > 2 the kernel
\* x^(alpha-1) (1-x)^(beta-1) at any x of the grid is no greater than at MAP.
C4_MAPIsMode ==
    map # None =>
        /\ shape[1] >= 1 /\ shape[2] >= 1 /\ shape[1] + shape[2] > 2
        /\ \A x \in Grid :
              LeqRat(BetaKernel(shape[1], shape[2], x),
                     BetaKernel(shape[1], shape[2], map))

C4_Witness ==
    /\ shape = <<3, 2>>
    /\ map = <<2, 3>>
    /\ LtRat(BetaKernel(3, 2, <<3, GridSize>>), BetaKernel(3, 2, map))

AllSuccess == k = n /\ n >= 1

\* C6 as stated: when every trial is a success the MLE is exactly 1, the
\* count-based Beta has its highest density at 1, and every p other than 1
\* has non-zero density.
C6_AsStated ==
    AllSuccess =>
        /\ mle # None => mle[1] = mle[2]
        /\ shape # None =>
              \A x \in Grid : x[1] # x[2] =>
                 /\ LtRat(BetaKernel(shape[1], shape[2], x),
                          BetaKernel(shape[1], shape[2], One))
                 /\ BetaKernel(shape[1], shape[2], x)[1] # 0

\* C6 amended: when every trial is a success the MLE is exactly 1, the
\* count-based Beta has its highest density at 1 (and nowhere else), and
\* every p with 0 < p < 1 has non-zero density, while p = 0 has density 0.
C6_AllSuccess ==
    AllSuccess =>
        /\ mle # None => mle[1] = mle[2]
        /\ map # None => map[1] = map[2]
        /\ shape # None =>
              \A x \in Grid : x[1] # x[2] =>
                 /\ LtRat(BetaKernel(shape[1], shape[2], x),
                          BetaKernel(shape[1], shape[2], One))
                 /\ x[1] > 0 => BetaKernel(shape[1], shape[2], x)[1] > 0
                 /\ x[1] = 0 => BetaKernel(shape[1], shape[2], x)[1] = 0

C6_Witness ==
    /\ n = 4
    /\ k = 4
    /\ mle = <<4, 4>>
    /\ shape = <<5, 1>>
    /\ map = <<4, 4>>
    /\ BetaKernel(5, 1, <<1, GridSize>>)[1] > 0

\* C8: the likelihood is convex in p: at the midpoint of the evaluated p
\* and any other p of the grid it is at most the average of the two values.
C8_LikelihoodConvex ==
    lik # None =>
        \A y \in Grid :
            LeqRat(Likelihood(n, k, Midpoint(p, y)),
                   Midpoint(lik, Likelihood(n, k, y)))

=============================================================================
